---- MODULE Spec2Model ----
(***************************************************************************)
(* Server side copy middleware (swift/common/middleware/copy.py).          *)
(*                                                                         *)
(* One WSGI request travels through ServerSideCopyMiddleware.__call__ and  *)
(* the handler it is dispatched to.  The proxy application behind the      *)
(* middleware is the environment: it answers the source GET, the sink PUT, *)
(* OPTIONS and every forwarded request.                                    *)
(*                                                                         *)
(* Strings are sequences of tokens.  A token is one character ("/", "c",   *)
(* " "), an atomic name ("v1", "A") or one percent-escape ("%2F", "%20"),  *)
(* so that quote() and unquote() are real conversions.  A header set is a  *)
(* function whose DOMAIN is the set of headers present (a dict keyed by    *)
(* the canonical header name).                                             *)
(***************************************************************************)
EXTENDS Integers, Sequences, FiniteSets, TLC

\* ------------------------------------------------------------------------
\* Bounds of the model
\* ------------------------------------------------------------------------

\* longest X-Copy-From / Destination value enumerated token by token
MaxHeaderLen == 3

\* requests one middleware instance handles at the same time
NumRequests == 2

\* ------------------------------------------------------------------------
\* Program constants
\* ------------------------------------------------------------------------

\* swift.common.constraints.MAX_FILE_SIZE, the cluster's configured
\* max_file_size, here in GiB
MAX_FILE_SIZE == 5
HTTP_CREATED == 201
HTTP_ACCEPTED == 202
HTTP_MULTIPLE_CHOICES == 300
HTTP_BAD_REQUEST == 400
HTTP_PRECONDITION_FAILED == 412
HTTP_REQUEST_ENTITY_TOO_LARGE == 413

\* content_length of a response that declares none (Python None)
NoLength == -1

\* ------------------------------------------------------------------------
\* Strings
\* ------------------------------------------------------------------------

Slash == <<"/">>

\* urllib unquote(): every percent-escape is decoded once
unquote_token(t) ==
    CASE t = "%2F" -> "/"
      [] t = "%20" -> " "
      [] t = "%252F" -> "%2F"
      [] t = "%2520" -> "%20"
      [] OTHER -> t

unquote(s) == [i \in 1..Len(s) |-> unquote_token(s[i])]

\* urllib quote() with safe='/': "/" and unreserved characters stay, the
\* rest (a space, the "%" of a literal escape) is percent-encoded
quote_token(t) ==
    CASE t = " " -> "%20"
      [] t = "%2F" -> "%252F"
      [] t = "%20" -> "%2520"
      [] OTHER -> t

quote(s) == [i \in 1..Len(s) |-> quote_token(s[i])]

\* index of the first "/" of s at or after i, 0 when there is none
RECURSIVE find_slash(_, _)
find_slash(s, i) ==
    IF i > Len(s) THEN 0
    ELSE IF s[i] = "/" THEN i
    ELSE find_slash(s, i + 1)

\* str.split('/', maxsplit): the list of the pieces
RECURSIVE split(_, _)
split(s, maxsplit) ==
    LET i == find_slash(s, 1) IN
    IF maxsplit = 0 \/ i = 0 THEN <<s>>
    ELSE <<SubSeq(s, 1, i - 1)>> \o split(SubSeq(s, i + 1, Len(s)), maxsplit - 1)

\* utils.split_path(path, minsegs, maxsegs, rest_with_last=True):
\* ok is FALSE where split_path raises ValueError
split_path(path, minsegs, maxsegs) ==
    LET all == split(path, maxsegs)
        segs == Tail(all)
        count == Len(segs)
        bad == \/ count = 0
               \/ segs[1] = <<>>
               \/ count < minsegs
               \/ count > maxsegs
               \/ \E i \in 2..minsegs : i <= count /\ segs[i] = <<>>
    IN [ok |-> ~bad, segs |-> segs]

\* '/%s/%s' % (a, b) and its longer forms
path2(a, b) == Slash \o a \o Slash \o b
path3(a, b, c) == path2(a, b) \o Slash \o c
path4(a, b, c, d) == path3(a, b, c) \o Slash \o d

\* ------------------------------------------------------------------------
\* Header sets (HeaderKeyDict): functions from the names present to values
\* ------------------------------------------------------------------------

EmptyDict == <<>>

\* the dict holding exactly the (name, value) pairs of a set of pairs
Dict(pairs) ==
    [k \in {p[1] : p \in pairs} |-> (CHOOSE p \in pairs : p[1] = k)[2]]

\* h[k] = v
Put(h, k, v) == [x \in (DOMAIN h) \cup {k} |-> IF x = k THEN v ELSE h[x]]

\* h.pop(k, None) / del h[k]
Pop(h, k) == [x \in (DOMAIN h) \ {k} |-> h[x]]

\* the entries of h whose name satisfies keep
Restrict(h, names) == [x \in (DOMAIN h) \cap names |-> h[x]]

\* bool(h.get(k)): present and not the empty string
Truthy(h, k) == k \in DOMAIN h /\ h[k] # <<>>

\* str(n) and int(s) for the lengths of the model
int_token(n) == <<ToString(n)>>

int_of(s) == CHOOSE n \in 0..(MAX_FILE_SIZE + 1) : int_token(n) = s

\* swob's content_length property: None when the header is absent
content_length_of(h) ==
    IF "Content-Length" \in DOMAIN h THEN int_of(h["Content-Length"]) ELSE NoLength

\* utils.config_true_value
config_true_value(v) == v \in {<<"true">>, <<"1">>, <<"yes">>, <<"on">>, <<"t">>, <<"y">>}

\* http.is_success
is_success(status) == 200 <= status /\ status <= 299

\* request_helpers: the classification of a header by its name
SysMetaNames == {"X-Object-Sysmeta-K"}
UserMetaNames == {"X-Object-Meta-K"}
TransientSysMetaNames == {"X-Object-Transient-Sysmeta-K"}

is_sys_meta(k) == k \in SysMetaNames
is_user_meta(k) == k \in UserMetaNames
is_sys_or_user_meta(k) == is_sys_meta(k) \/ is_user_meta(k)
is_object_transient_sysmeta(k) == k \in TransientSysMetaNames

\* constraints.check_account_format: FALSE where it raises
account_format_ok(account) ==
    account # <<>> /\ \A i \in 1..Len(account) : account[i] # "/"

\* ------------------------------------------------------------------------
\* Pure parts of the middleware
\* ------------------------------------------------------------------------

MsgCopyFrom == "X-Copy-From header must be of the form <container name>/<object name>"
MsgDestination == "Destination header must be of the form <container name>/<object name>"
MsgDestinationRequired == "Destination header required"
MsgZeroByte == "Copy requests require a zero byte body"
MsgAccountEmpty == "Account name cannot be empty"
MsgAccountSlashes == "Account name cannot contain slashes"

\* the body of the 412 check_account_format raises for a bad account
account_format_error(account) ==
    IF account = <<>> THEN MsgAccountEmpty ELSE MsgAccountSlashes

\* _check_path_header(req, name, 2, error_msg): ok is FALSE where it raises
\* HTTPPreconditionFailed, whose body is error_msg
_check_path_header(headers, name, error_msg) ==
    LET decoded == unquote(headers[name])
        src_header == IF decoded # <<>> /\ decoded[1] = "/"
                      THEN decoded ELSE Slash \o decoded
        parts == split_path(src_header, 2, 2)
    IN [ok |-> parts.ok, segs |-> parts.segs, error_msg |-> error_msg]

_check_copy_from_header(headers) ==
    _check_path_header(headers, "X-Copy-From", MsgCopyFrom)

\* mutant: the Destination check reports the X-Copy-From message
_check_destination_header_wrong_msg(headers) ==
    _check_path_header(headers, "Destination", MsgCopyFrom)

_check_destination_header(headers) ==
    _check_path_header(headers, "Destination", MsgDestination)

\* mutant: transient system metadata is not carried over
_copy_headers_into_no_transient(from_headers, to_headers) ==
    LET copied == {k \in DOMAIN from_headers :
                      is_sys_or_user_meta(k) \/ k = "X-Delete-At"}
    IN [k \in (DOMAIN to_headers) \cup copied |->
           IF k \in copied THEN from_headers[k] ELSE to_headers[k]]

\* the headers _copy_headers_into(from_r, to_r) leaves in to_r
_copy_headers_into(from_headers, to_headers) ==
    LET copied == {k \in DOMAIN from_headers :
                      \/ is_sys_or_user_meta(k)
                      \/ is_object_transient_sysmeta(k)
                      \/ k = "X-Delete-At"}
    IN [k \in (DOMAIN to_headers) \cup copied |->
           IF k \in copied THEN from_headers[k] ELSE to_headers[k]]

\* mutant: `if req.content_length is not None:`
has_body_if_declared(headers) == content_length_of(headers) # NoLength

\* handle_PUT, line 433: `if req.content_length:` (None and 0 are both falsy)
has_body(headers) ==
    LET length == content_length_of(headers)
    IN length # NoLength /\ length # 0

\* mutant: `'Destination' in req.headers`
destination_given_if_present(headers) == "Destination" \in DOMAIN headers

\* handle_COPY, line 356: `req.headers.get('Destination')` is truthy
destination_given(headers) == Truthy(headers, "Destination")

\* mutant: the source account is not recorded
set_copy_from_account_forgotten(headers, account) ==
    Pop(headers, "Destination-Account")

\* handle_COPY, lines 364 and 366: the source account is recorded as
\* X-Copy-From-Account and Destination-Account is dropped
set_copy_from_account(headers, account) ==
    Pop(Put(headers, "X-Copy-From-Account", account), "Destination-Account")

\* the source response _get_source_object hands back for the response `raw`
\* of the source sub-request: a 413 of its own when the length is unknown or
\* too large
HTTPRequestEntityTooLarge ==
    [status |-> HTTP_REQUEST_ENTITY_TOO_LARGE, content_length |-> 0,
     headers |-> Dict({<<"Content-Type", <<"text/html">>>>}),
     body |-> "Request Entity Too Large", app_iter |-> "error-body"]

\* mutant: no check against MAX_FILE_SIZE
_get_source_object_result_no_max(raw) ==
    IF raw.content_length = NoLength THEN HTTPRequestEntityTooLarge ELSE raw

\* mutant: the status of the source response is looked at first
_get_source_object_result_status_first(raw) ==
    IF raw.status >= HTTP_MULTIPLE_CHOICES THEN raw
    ELSE IF raw.content_length = NoLength THEN HTTPRequestEntityTooLarge
    ELSE IF raw.content_length > MAX_FILE_SIZE THEN HTTPRequestEntityTooLarge
    ELSE raw

_get_source_object_result(raw) ==
    IF raw.content_length = NoLength THEN HTTPRequestEntityTooLarge
    ELSE IF raw.content_length > MAX_FILE_SIZE THEN HTTPRequestEntityTooLarge
    ELSE raw

\* mutant: X-Newest is set only where the request has none
_get_source_request_default_newest(source_path, r) ==
    LET h1 == Pop(r.headers, "X-Backend-Storage-Policy-Index")
        h2 == IF "X-Newest" \in DOMAIN h1 THEN h1
              ELSE Put(h1, "X-Newest", <<"true">>)
        manifest == "multipart-manifest" \in DOMAIN r.params
                    /\ r.params["multipart-manifest"] = "get"
    IN [method |-> "GET",
        path_info |-> quote(source_path),
        headers |-> h2,
        params |-> IF manifest THEN Put(r.params, "format", "raw") ELSE r.params,
        authorize_override |-> r.environ.post_as_copy]

\* mutant: only 4xx and 5xx source answers end the copy
source_failed_from_400(resp) == resp.status >= HTTP_BAD_REQUEST

\* handle_PUT, line 457: the source response ends the copy
source_failed(resp) == resp.status >= HTTP_MULTIPLE_CHOICES

\* the source request _get_source_object builds from req (lines 385-401)
_get_source_request(source_path, r) ==
    LET h1 == Pop(r.headers, "X-Backend-Storage-Policy-Index")
        h2 == Put(h1, "X-Newest", <<"true">>)
        manifest == "multipart-manifest" \in DOMAIN r.params
                    /\ r.params["multipart-manifest"] = "get"
    IN [method |-> "GET",
        path_info |-> quote(source_path),
        headers |-> h2,
        params |-> IF manifest THEN Put(r.params, "format", "raw") ELSE r.params,
        authorize_override |-> r.environ.post_as_copy]

\* the path make_subrequest gives the source sub-request: it unquotes the
\* path it is handed (get_source_resp passes req.path_info)
get_source_resp_path(source_req) == unquote(source_req.path_info)

\* mutant: fresh metadata without remove_items, the request's system
\* metadata stays
sink_metadata_keep_request_sysmeta(post_as_copy, req_headers, source_headers, sink_headers) ==
    LET fresh_meta_flag ==
            "X-Fresh-Metadata" \in DOMAIN sink_headers
            /\ config_true_value(sink_headers["X-Fresh-Metadata"])
        src_sys == {k \in DOMAIN source_headers : is_sys_meta(k)}
    IN IF fresh_meta_flag \/ post_as_copy
       THEN [k \in (DOMAIN sink_headers) \cup src_sys |->
                IF k \in src_sys THEN source_headers[k] ELSE sink_headers[k]]
       ELSE _copy_headers_into(req_headers,
                               _copy_headers_into(source_headers, sink_headers))

\* handle_PUT, lines 490-502: the sink headers after the metadata policy
\* (remove_items and copy_header_subset under is_sys_meta, or the two
\* _copy_headers_into passes)
sink_metadata(post_as_copy, req_headers, source_headers, sink_headers) ==
    LET fresh_meta_flag ==
            "X-Fresh-Metadata" \in DOMAIN sink_headers
            /\ config_true_value(sink_headers["X-Fresh-Metadata"])
        removed == Restrict(sink_headers,
                            {k \in DOMAIN sink_headers : ~is_sys_meta(k)})
        src_sys == {k \in DOMAIN source_headers : is_sys_meta(k)}
    IN IF fresh_meta_flag \/ post_as_copy
       THEN [k \in (DOMAIN removed) \cup src_sys |->
                IF k \in src_sys THEN source_headers[k] ELSE removed[k]]
       ELSE _copy_headers_into(req_headers,
                               _copy_headers_into(source_headers, sink_headers))

\* mutant: the parameter of a static large object's copy stays get
sink_params_no_put(params, source_headers) ==
    LET manifest == "multipart-manifest" \in DOMAIN params
                    /\ params["multipart-manifest"] = "get"
        dlo == manifest /\ "X-Object-Manifest" \in DOMAIN source_headers
    IN IF dlo THEN Pop(params, "multipart-manifest") ELSE params

\* handle_PUT, lines 466-474: the parameters of the sink request
sink_params(params, source_headers) ==
    LET manifest == "multipart-manifest" \in DOMAIN params
                    /\ params["multipart-manifest"] = "get"
        slo == manifest /\ "X-Static-Large-Object" \in DOMAIN source_headers
        dlo == manifest /\ "X-Object-Manifest" \in DOMAIN source_headers
        p1 == IF slo THEN Put(params, "multipart-manifest", "put") ELSE params
    IN IF dlo THEN Pop(p1, "multipart-manifest") ELSE p1

\* mutant: the source's Content-Type is used only when the request has no
\* Content-Type header at all
inherit_content_type_if_absent(request_headers, source_headers, sink_headers) ==
    IF "Content-Type" \notin DOMAIN request_headers
    THEN Put(sink_headers, "Content-Type", source_headers["Content-Type"])
    ELSE sink_headers

\* handle_PUT, lines 484-488: a copy request that does not override the
\* content type takes the source's
inherit_content_type(request_headers, source_headers, sink_headers) ==
    IF ~Truthy(request_headers, "Content-Type")
    THEN Put(sink_headers, "Content-Type", source_headers["Content-Type"])
    ELSE sink_headers

\* handle_PUT, lines 463-502: the sink request built from the (rewritten)
\* request r and the source response
sink_request(r, source_resp) ==
    LET manifest == "multipart-manifest" \in DOMAIN r.params
                    /\ r.params["multipart-manifest"] = "get"
        dlo == manifest /\ "X-Object-Manifest" \in DOMAIN source_resp.headers
        p2 == sink_params(r.params, source_resp.headers)
        h0 == r.headers
        h1 == IF dlo THEN Put(h0, "X-Object-Manifest",
                              source_resp.headers["X-Object-Manifest"])
              ELSE h0
        h2 == Put(h1, "Content-Length", int_token(source_resp.content_length))
        h3 == IF "Etag" \in DOMAIN source_resp.headers
              THEN Put(h2, "Etag", source_resp.headers["Etag"])
              ELSE Pop(h2, "Etag")
        h4 == Pop(Pop(h3, "X-Copy-From"), "X-Copy-From-Account")
        h5 == inherit_content_type(r.headers, source_resp.headers, h4)
    IN [method |-> r.method,
        path_info |-> r.path_info,
        params |-> p2,
        headers |-> sink_metadata(r.environ.post_as_copy, r.headers,
                                  source_resp.headers, h5),
        input |-> source_resp.app_iter,
        post_as_copy |-> r.environ.post_as_copy]

\* mutant: X-Copied-From-Account is left out
_create_response_headers_no_account(source_path, source_headers, sink_headers) ==
    LET pieces == split(source_path, 3)
        path == pieces[4]
        h1 == Dict({<<"X-Copied-From", quote(path)>>})
        h2 == IF "Last-Modified" \in DOMAIN source_headers
              THEN Put(h1, "X-Copied-From-Last-Modified",
                       source_headers["Last-Modified"])
              ELSE h1
        meta == {k \in DOMAIN sink_headers :
                    is_sys_or_user_meta(k) \/ k = "X-Delete-At"}
    IN [k \in (DOMAIN h2) \cup meta |->
           IF k \in meta THEN sink_headers[k] ELSE h2[k]]

\* _create_response_headers(source_path, source_resp, sink_req)
_create_response_headers(source_path, source_headers, sink_headers) ==
    LET pieces == split(source_path, 3)
        acct == pieces[3]
        path == pieces[4]
        h1 == Dict({<<"X-Copied-From-Account", quote(acct)>>,
                    <<"X-Copied-From", quote(path)>>})
        h2 == IF "Last-Modified" \in DOMAIN source_headers
              THEN Put(h1, "X-Copied-From-Last-Modified",
                       source_headers["Last-Modified"])
              ELSE h1
        meta == {k \in DOMAIN sink_headers :
                    is_sys_or_user_meta(k) \/ k = "X-Delete-At"}
    IN [k \in (DOMAIN h2) \cup meta |->
           IF k \in meta THEN sink_headers[k] ELSE h2[k]]

\* mutant: 201 becomes 202 for every copy
_adjust_put_response_always_202(post_as_copy, status, headers, additional_resp_headers) ==
    IF status = HTTP_CREATED
    THEN [status |-> HTTP_ACCEPTED, headers |-> headers]
    ELSE IF is_success(status) /\ ~post_as_copy
    THEN [status |-> status,
          headers |-> [k \in (DOMAIN headers) \cup (DOMAIN additional_resp_headers) |->
                          IF k \in DOMAIN additional_resp_headers
                          THEN additional_resp_headers[k] ELSE headers[k]]]
    ELSE [status |-> status, headers |-> headers]

\* mutant: the supplementary headers are added whatever the write's status
_adjust_put_response_headers_always(post_as_copy, status, headers, additional_resp_headers) ==
    IF post_as_copy
    THEN [status |-> IF status = HTTP_CREATED THEN HTTP_ACCEPTED ELSE status,
          headers |-> headers]
    ELSE [status |-> status,
          headers |-> [k \in (DOMAIN headers) \cup (DOMAIN additional_resp_headers) |->
                          IF k \in DOMAIN additional_resp_headers
                          THEN additional_resp_headers[k] ELSE headers[k]]]

\* _adjust_put_response: the status and headers handed to start_response
_adjust_put_response(post_as_copy, status, headers, additional_resp_headers) ==
    IF post_as_copy
    THEN [status |-> IF status = HTTP_CREATED THEN HTTP_ACCEPTED ELSE status,
          headers |-> headers]
    ELSE IF is_success(status)
    THEN [status |-> status,
          headers |-> [k \in (DOMAIN headers) \cup (DOMAIN additional_resp_headers) |->
                          IF k \in DOMAIN additional_resp_headers
                          THEN additional_resp_headers[k] ELSE headers[k]]]
    ELSE [status |-> status, headers |-> headers]

\* `'COPY' in value`: a header value is the list of the verbs it names,
\* joined by ", " in the code; COPY is a substring of the value exactly when
\* it is a substring of one of the verbs
has_COPY(value) ==
    \E i \in 1..Len(value) : value[i] \in {"COPY", "MCOPY"}

\* mutant: COPY is appended whatever the header holds
options_headers_always_append(status, headers) ==
    IF is_success(status)
    THEN [k \in DOMAIN headers |->
             IF k \in {"Allow", "Access-Control-Allow-Methods"}
             THEN Append(headers[k], "COPY") ELSE headers[k]]
    ELSE headers

\* handle_OPTIONS_request: the headers handed to start_response
options_headers(status, headers) ==
    LET adapt(k) == k \in {"Allow", "Access-Control-Allow-Methods"}
                    /\ ~has_COPY(headers[k])
    IN IF is_success(status)
       THEN [k \in DOMAIN headers |->
                IF adapt(k) THEN Append(headers[k], "COPY") ELSE headers[k]]
       ELSE headers

\* ------------------------------------------------------------------------
\* State
\* ------------------------------------------------------------------------

VARIABLES
    pc,                   \* position of the request in the middleware
    object_post_as_copy,  \* self.object_post_as_copy (configuration)
    account_name,         \* self.account_name
    container_name,       \* self.container_name
    object_name,          \* self.object_name
    client_req,           \* the request as the client sent it (never changed)
    req,                  \* req, rewritten in place by the handlers
    app_get,              \* what the proxy application answers to the source GET
    source_path,          \* handle_PUT's source_path
    source_resp,          \* handle_PUT's source_resp
    resp_headers,         \* handle_PUT's resp_headers
    calls,                \* the requests handed to the application, in order
    closed,               \* the body streams closed by close_if_possible
    put_status,           \* the status the application answered the sink PUT with
    response,             \* what the caller gets: status, headers, body
    raised,               \* TRUE when it left __call__ as a raised HTTPException
    app_resp,             \* the application's answer captured by _app_call
    handling              \* the requests one instance handles concurrently

vars == <<pc, object_post_as_copy, account_name, container_name, object_name,
          client_req, req, app_get, source_path, source_resp, resp_headers,
          calls, closed, put_status, response, raised, app_resp, handling>>

\* ------------------------------------------------------------------------
\* Requests and application answers the model starts from
\* ------------------------------------------------------------------------

Methods == {"PUT", "COPY", "POST", "OPTIONS", "GET"}
CopyMethods == {"PUT", "COPY", "POST"}

AcctA == <<"A">>
AcctB == <<"B">>
ObjectPath == path4(<<"v1">>, AcctA, <<"c">>, <<"o">>)
ContainerPath == path3(<<"v1">>, AcctA, <<"c">>)
GoodPathHeader == path2(<<"c2">>, <<"o2">>)
BadPathHeader == <<"c2">>
BadAccount == <<"B", "/", "x">>

\* the sets of pairs {} and {<<name, v>>} for v in values: a header that is
\* absent or carries one of the values
Optional(name, values) == {{}} \cup {{<<name, v>>} : v \in values}

Request(method, path_info, headers, params) ==
    [method |-> method, path_info |-> path_info, headers |-> headers,
     params |-> params,
     environ |-> [orig_req_method |-> "", post_as_copy |-> FALSE]]

SourceHeaders == Dict({<<"Content-Type", <<"text/plain">>>>,
                       <<"Etag", <<"etag">>>>,
                       <<"Last-Modified", <<"yesterday">>>>})

SourceResponse(status, content_length, headers) ==
    [status |-> status, content_length |-> content_length, headers |-> headers,
     body |-> "source-body", app_iter |-> "source-body"]

GoodSource == SourceResponse(200, 3, SourceHeaders)

\* the headers that make each method a well-formed copy request
CopyHeaders(method) ==
    CASE method = "PUT" -> {<<"X-Copy-From", GoodPathHeader>>}
      [] method = "COPY" -> {<<"Destination", GoodPathHeader>>}
      [] OTHER -> {}

\* control flow: every method, the copy headers present, empty, well formed
\* or malformed, with and without a declared body
ControlRequests ==
    {Request(m, p, Dict(xcf \cup xcfa \cup dst \cup dsta \cup cl), EmptyDict) :
        m \in Methods, p \in {ObjectPath, ContainerPath},
        xcf \in Optional("X-Copy-From", {<<>>, GoodPathHeader, BadPathHeader}),
        xcfa \in Optional("X-Copy-From-Account", {AcctB, BadAccount}),
        dst \in Optional("Destination", {<<>>, GoodPathHeader, BadPathHeader}),
        dsta \in Optional("Destination-Account", {AcctB, <<>>}),
        cl \in Optional("Content-Length", {int_token(0), int_token(3)})}

ControlSources == {GoodSource, SourceResponse(404, 3, SourceHeaders)}

\* path headers: every string of at most MaxHeaderLen tokens as X-Copy-From
\* of a PUT and as Destination of a COPY, on object names that need quoting
PathTokens == {"/", "c", "%2F", " "}

RECURSIVE StringsUpTo(_)
StringsUpTo(n) ==
    IF n = 0 THEN {<<>>}
    ELSE LET shorter == StringsUpTo(n - 1)
         IN shorter \cup {Append(s, t) : s \in shorter, t \in PathTokens}

UrlObjects == {<<"o">>, <<"o", " ">>, <<"o", "/", "x">>}
UrlVersions == {<<"v1">>, <<"v2">>}

PathRequests ==
    {Request("PUT", path4(ver, AcctA, <<"c">>, o),
             Dict({<<"X-Copy-From", v>>} \cup xcfa), EmptyDict) :
        ver \in UrlVersions, o \in UrlObjects, v \in StringsUpTo(MaxHeaderLen),
        xcfa \in Optional("X-Copy-From-Account", {AcctB})}
    \cup
    {Request("COPY", path4(ver, AcctA, <<"c">>, o),
             Dict({<<"Destination", v>>} \cup dsta), EmptyDict) :
        ver \in UrlVersions, o \in UrlObjects, v \in StringsUpTo(MaxHeaderLen),
        dsta \in Optional("Destination-Account", {AcctB})}
    \cup
    {Request("POST", path4(ver, AcctA, <<"c">>, o), EmptyDict, EmptyDict) :
        ver \in UrlVersions, o \in UrlObjects}

\* source answers: every status with every declared length
SourceStatuses == {200, 206, 304, 404, 503}
SourceLengths == {NoLength, 0, 3, MAX_FILE_SIZE, MAX_FILE_SIZE + 1}

FetchRequests ==
    {Request(m, ObjectPath, Dict(CopyHeaders(m)), EmptyDict) : m \in CopyMethods}

FetchSources ==
    {SourceResponse(st, len, h) :
        st \in SourceStatuses, len \in SourceLengths,
        h \in {SourceHeaders, Pop(SourceHeaders, "Last-Modified")}}

\* metadata: each kind of metadata header absent or present on the request
\* and on the source, with and without X-Fresh-Metadata
MetaNames == SysMetaNames \cup UserMetaNames \cup TransientSysMetaNames
             \cup {"X-Delete-At"}

MetaHeaders(value) ==
    {[k \in present |-> value] : present \in SUBSET MetaNames}

MetaRequests ==
    {Request(m, ObjectPath,
             Dict(CopyHeaders(m) \cup fresh \cup {<<"X-Trans-Id", <<"tx">>>>}) @@ meta,
             EmptyDict) :
        m \in CopyMethods,
        fresh \in Optional("X-Fresh-Metadata", {<<"true">>, <<"false">>}),
        meta \in MetaHeaders(<<"from-request">>)}

MetaSources ==
    {SourceResponse(200, 3, SourceHeaders @@ meta) :
        meta \in MetaHeaders(<<"from-source">>)}

\* manifests: the multipart-manifest parameter absent, get or put and X-Newest
\* absent, false or true on the request; the source a plain object, a static
\* large object, a dynamic large object or both
ManifestParams ==
    {EmptyDict} \cup {Dict({<<"multipart-manifest", v>>}) : v \in {"get", "put"}}

ManifestRequests ==
    {Request(m, ObjectPath, Dict(CopyHeaders(m) \cup newest), params) :
        m \in CopyMethods, params \in ManifestParams,
        newest \in Optional("X-Newest", {<<"false">>, <<"true">>})}

ManifestSources ==
    {SourceResponse(200, 3, SourceHeaders @@ Dict(slo \cup dlo)) :
        slo \in Optional("X-Static-Large-Object", {<<"True">>}),
        dlo \in Optional("X-Object-Manifest", {<<"segs/prefix">>})}

\* content types: Content-Type absent, empty or given on the request, with and
\* without a source account, and two content types of the source
ContentTypeRequests ==
    {Request(m, ObjectPath, Dict(CopyHeaders(m) \cup ct \cup xcfa), EmptyDict) :
        m \in CopyMethods,
        ct \in Optional("Content-Type", {<<>>, <<"image/png">>}),
        xcfa \in Optional("X-Copy-From-Account", {AcctB})}

ContentTypeSources ==
    {SourceResponse(200, 3, Put(SourceHeaders, "Content-Type", ct)) :
        ct \in {<<"text/plain">>, <<"application/json">>}}

NoResponse == [status |-> 0, headers |-> EmptyDict, body |-> ""]

NoSource == [status |-> 0, content_length |-> NoLength, headers |-> EmptyDict,
             body |-> "", app_iter |-> "none"]

Init ==
    /\ pc = "__call__"
    /\ object_post_as_copy \in BOOLEAN
    /\ \/ client_req \in ControlRequests /\ app_get \in ControlSources
       \/ client_req \in PathRequests /\ app_get = GoodSource
       \/ client_req \in FetchRequests /\ app_get \in FetchSources
       \/ client_req \in MetaRequests /\ app_get \in MetaSources
       \/ client_req \in ManifestRequests /\ app_get \in ManifestSources
       \/ client_req \in ContentTypeRequests /\ app_get \in ContentTypeSources
    /\ req = client_req
    /\ account_name = <<>>
    /\ container_name = <<>>
    /\ object_name = <<>>
    /\ source_path = <<>>
    /\ source_resp = NoSource
    /\ resp_headers = EmptyDict
    /\ calls = <<>>
    /\ closed = {}
    /\ put_status = 0
    /\ response = NoResponse
    /\ raised = FALSE
    /\ app_resp = NoResponse
    /\ handling = <<>>

\* ------------------------------------------------------------------------
\* Actions
\* ------------------------------------------------------------------------

\* a response of the middleware's own making
Error(status, body) == [status |-> status, headers |-> EmptyDict, body |-> body]

\* the request handed to the application, as `calls` records it
Issued(kind, method, path, headers, params, authorize_override) ==
    [kind |-> kind, method |-> method, path |-> path, headers |-> headers,
     params |-> params, authorize_override |-> authorize_override]

\* mutant: a POST is handled as post-as-copy whatever the configuration
dispatch_post_always(r) ==
    IF r.method = "PUT" /\ Truthy(r.headers, "X-Copy-From") THEN "handle_PUT"
    ELSE IF r.method = "COPY" THEN "handle_COPY"
    ELSE IF r.method = "POST" THEN "handle_object_post_as_copy"
    ELSE IF r.method = "OPTIONS" THEN "handle_OPTIONS"
    ELSE "app"

\* the handler __call__ picks for a request on an object path
dispatch(r) ==
    IF r.method = "PUT" /\ Truthy(r.headers, "X-Copy-From") THEN "handle_PUT"
    ELSE IF r.method = "COPY" THEN "handle_COPY"
    ELSE IF r.method = "POST" /\ object_post_as_copy THEN "handle_object_post_as_copy"
    ELSE IF r.method = "OPTIONS" THEN "handle_OPTIONS"
    ELSE "app"

\* __call__, up to the handler it returns
Call ==
    /\ pc = "__call__"
    /\ LET parts == split_path(req.path_info, 4, 4) IN
       IF ~parts.ok
       THEN /\ pc' = "app"
            /\ UNCHANGED <<account_name, container_name, object_name, req>>
       ELSE /\ account_name' = parts.segs[2]
            /\ container_name' = parts.segs[3]
            /\ object_name' = parts.segs[4]
            /\ req' = [req EXCEPT !.environ.orig_req_method = req.method]
            /\ pc' = dispatch(req)
    /\ UNCHANGED <<handling, app_resp, object_post_as_copy, client_req, app_get, source_path,
                   source_resp, resp_headers, calls, closed, put_status, response,
                   raised>>

\* statuses the application answers a forwarded or OPTIONS request with
AppStatuses == {200, 404}

\* return self.app(env, start_response)
Forward ==
    /\ pc = "app"
    /\ calls' = Append(calls, Issued("forward", req.method, req.path_info,
                                     req.headers, req.params, FALSE))
    /\ \E st \in AppStatuses :
          response' = [status |-> st, headers |-> EmptyDict, body |-> "app-body"]
    /\ pc' = "done"
    /\ UNCHANGED <<handling, app_resp, object_post_as_copy, account_name, container_name,
                   object_name, client_req, req, app_get, source_path,
                   source_resp, resp_headers, closed, put_status, raised>>

\* handle_object_post_as_copy, up to its call of handle_PUT
HandlePostAsCopy ==
    /\ pc = "handle_object_post_as_copy"
    /\ LET h1 == Put(req.headers, "Content-Length", int_token(0))
           h2 == Pop(h1, "Range")
           h3 == Put(h2, "X-Copy-From",
                     quote(path2(container_name, object_name)))
       IN req' = [req EXCEPT
                    !.method = "PUT",
                    !.path_info = path4(<<"v1">>, account_name, container_name,
                                       object_name),
                    !.headers = h3,
                    !.environ.post_as_copy = TRUE,
                    !.params = Put(req.params, "multipart-manifest", "get")]
    /\ pc' = "handle_PUT"
    /\ UNCHANGED <<handling, app_resp, object_post_as_copy, account_name, container_name,
                   object_name, client_req, app_get, source_path, source_resp,
                   resp_headers, calls, closed, put_status, response, raised>>

\* the handler ends: the response goes to the caller
Finish(resp, is_raised) ==
    /\ response' = resp
    /\ raised' = is_raised
    /\ pc' = "done"

\* handle_COPY, up to its call of handle_PUT
HandleCOPY ==
    /\ pc = "handle_COPY"
    /\ LET has_dest_account == "Destination-Account" \in DOMAIN req.headers
           dest_account == IF has_dest_account
                           THEN req.headers["Destination-Account"]
                           ELSE account_name
           h1 == IF has_dest_account
                 THEN set_copy_from_account(req.headers, account_name)
                 ELSE req.headers
           dest == _check_destination_header(req.headers)
           source == path2(container_name, object_name)
           ver == split_path(req.path_info, 1, 2).segs[1]
           h2 == Put(h1, "Content-Length", int_token(0))
           h3 == Put(h2, "X-Copy-From", quote(source))
       IN IF ~destination_given(req.headers)
          THEN /\ Finish(Error(HTTP_PRECONDITION_FAILED, MsgDestinationRequired),
                         FALSE)
               /\ UNCHANGED <<account_name, container_name, object_name, req>>
          ELSE IF has_dest_account /\ ~account_format_ok(dest_account)
          THEN /\ Finish(Error(HTTP_PRECONDITION_FAILED,
                               account_format_error(dest_account)), TRUE)
               /\ UNCHANGED <<account_name, container_name, object_name, req>>
          ELSE IF ~dest.ok
          THEN /\ Finish(Error(HTTP_PRECONDITION_FAILED, dest.error_msg), TRUE)
               /\ account_name' = dest_account
               /\ req' = [req EXCEPT !.headers = h1]
               /\ UNCHANGED <<container_name, object_name>>
          ELSE /\ account_name' = dest_account
               /\ container_name' = dest.segs[1]
               /\ object_name' = dest.segs[2]
               /\ req' = [req EXCEPT
                            !.method = "PUT",
                            !.path_info = path4(ver, dest_account, dest.segs[1],
                                                dest.segs[2]),
                            !.headers = Pop(h3, "Destination")]
               /\ pc' = "handle_PUT"
               /\ UNCHANGED <<response, raised>>
    /\ UNCHANGED <<handling, app_resp, object_post_as_copy, client_req, app_get, source_path,
                   source_resp, resp_headers, calls, closed, put_status>>

\* handle_PUT, up to the source sub-request _get_source_object sends
HandlePUT ==
    /\ pc = "handle_PUT"
    /\ LET parts == split_path(req.path_info, 2, 3)
           ver == parts.segs[1]
           acct == parts.segs[2]
           given == Truthy(req.headers, "X-Copy-From-Account")
           src_account_name == IF given THEN req.headers["X-Copy-From-Account"]
                               ELSE acct
           src == _check_copy_from_header(req.headers)
           path == path4(ver, src_account_name, src.segs[1], src.segs[2])
           source_req == _get_source_request(path, req)
       IN IF has_body(req.headers)
          THEN /\ Finish(Error(HTTP_BAD_REQUEST, MsgZeroByte), FALSE)
               /\ UNCHANGED <<source_path, calls>>
          ELSE IF given /\ ~account_format_ok(src_account_name)
          THEN /\ Finish(Error(HTTP_PRECONDITION_FAILED,
                               account_format_error(src_account_name)), TRUE)
               /\ UNCHANGED <<source_path, calls>>
          ELSE IF ~src.ok
          THEN /\ Finish(Error(HTTP_PRECONDITION_FAILED, src.error_msg), TRUE)
               /\ UNCHANGED <<source_path, calls>>
          ELSE /\ source_path' = path
               /\ calls' = Append(calls,
                      Issued("source", source_req.method,
                             get_source_resp_path(source_req), source_req.headers,
                             source_req.params, source_req.authorize_override))
               /\ pc' = "get_source_resp"
               /\ UNCHANGED <<response, raised>>
    /\ UNCHANGED <<handling, app_resp, object_post_as_copy, account_name, container_name,
                   object_name, client_req, req, app_get, source_resp,
                   resp_headers, closed, put_status>>

\* the source sub-request returns: the rest of _get_source_object, then
\* handle_PUT up to the sink request send_put_req hands to the application
SourceReturns ==
    /\ pc = "get_source_resp"
    /\ LET got == _get_source_object_result(app_get)
           sink_req == sink_request(req, got)
       IN /\ source_resp' = got
          /\ IF source_failed(got)
             THEN /\ closed' = closed \cup {got.app_iter}
                  /\ Finish([status |-> got.status, headers |-> got.headers,
                             body |-> got.body], FALSE)
                  /\ UNCHANGED <<resp_headers, calls>>
             ELSE /\ resp_headers' = _create_response_headers(
                                         source_path, got.headers, sink_req.headers)
                  /\ calls' = Append(calls,
                         Issued("sink", sink_req.method, sink_req.path_info,
                                sink_req.headers, sink_req.params, FALSE))
                  /\ pc' = "send_put_req"
                  /\ UNCHANGED <<closed, response, raised>>
    /\ UNCHANGED <<handling, app_resp, object_post_as_copy, account_name, container_name,
                   object_name, client_req, req, app_get, source_path,
                   put_status>>

\* statuses and headers the application answers the sink PUT with
PutStatuses == {HTTP_CREATED, HTTP_ACCEPTED, 404, 503}
PutHeaders == Dict({<<"Etag", <<"etag">>>>})

\* the sink PUT returns: the rest of send_put_req, then handle_PUT's end
PutReturns ==
    /\ pc = "send_put_req"
    /\ \E st \in PutStatuses :
          LET adjusted == _adjust_put_response(req.environ.post_as_copy, st,
                                               PutHeaders, resp_headers)
          IN /\ put_status' = st
             /\ app_resp' = [status |-> st, headers |-> PutHeaders,
                             body |-> "put-body"]
             /\ Finish([status |-> adjusted.status, headers |-> adjusted.headers,
                        body |-> "put-body"], FALSE)
    /\ closed' = closed \cup {source_resp.app_iter}
    /\ UNCHANGED <<handling, object_post_as_copy, account_name, container_name,
                   object_name, client_req, req, app_get, source_path,
                   source_resp, resp_headers, calls>>

\* headers the application answers OPTIONS with
OptionsValues ==
    {<<>>, <<"GET", "PUT">>, <<"GET", "COPY">>, <<"COPY", "GET">>, <<"MCOPY">>}

OptionsHeaders ==
    {Dict(allow \cup cors \cup {<<"X-Trans-Id", <<"tx">>>>}) :
        allow \in Optional("Allow", OptionsValues),
        cors \in Optional("Access-Control-Allow-Methods", OptionsValues)}

\* handle_OPTIONS and handle_OPTIONS_request
HandleOPTIONS ==
    /\ pc = "handle_OPTIONS"
    /\ calls' = Append(calls, Issued("options", req.method, req.path_info,
                                     req.headers, req.params, FALSE))
    /\ \E st \in AppStatuses, h \in OptionsHeaders :
          /\ app_resp' = [status |-> st, headers |-> h, body |-> "app-body"]
          /\ Finish([status |-> st, headers |-> options_headers(st, h),
                     body |-> "app-body"], FALSE)
    /\ UNCHANGED <<handling, object_post_as_copy, account_name, container_name,
                   object_name, client_req, req, app_get, source_path,
                   source_resp, resp_headers, closed, put_status>>

Next ==
    \/ Call
    \/ Forward
    \/ HandlePostAsCopy
    \/ HandleCOPY
    \/ HandlePUT
    \/ SourceReturns
    \/ PutReturns
    \/ HandleOPTIONS

Spec == Init /\ [][Next]_vars

\* ------------------------------------------------------------------------
\* Vocabulary of the properties
\* ------------------------------------------------------------------------

\* the positions in `calls` of the sub-requests of one kind
CallsOf(kind) == {i \in 1..Len(calls) : calls[i].kind = kind}

\* the client's request is on an object path (version, account, container
\* and a non-empty object)
OnObjectPath == split_path(client_req.path_info, 4, 4).ok

\* the source sub-request has been answered
SourceAnswered == CallsOf("source") # {} /\ pc \in {"send_put_req", "done"}

\* the request is handled as post-as-copy
IsPostAsCopy == OnObjectPath /\ client_req.method = "POST" /\ object_post_as_copy

\* the middleware's own error responses
OwnErrorBodies ==
    {MsgCopyFrom, MsgDestination, MsgDestinationRequired, MsgZeroByte,
     MsgAccountEmpty, MsgAccountSlashes, HTTPRequestEntityTooLarge.body}

\* ------------------------------------------------------------------------
\* C1
\* ------------------------------------------------------------------------

\* C1: the sink (write) sub-request is issued at most once, and only as the
\* second sub-request, after the one source sub-request has been answered
\* with a 2xx status and a declared length of at most MAX_FILE_SIZE; a
\* request that ends in an error of the middleware's own, or whose source
\* answer was not such a success, issues no sink sub-request.
C1_WriteOnceAfterValidSource ==
    /\ Cardinality(CallsOf("sink")) <= 1
    /\ CallsOf("sink") # {} =>
          /\ CallsOf("sink") = {2}
          /\ CallsOf("source") = {1}
          /\ SourceAnswered
          /\ is_success(app_get.status)
          /\ app_get.content_length # NoLength
          /\ app_get.content_length <= MAX_FILE_SIZE
    /\ (pc = "done" /\ (raised \/ response.body \in OwnErrorBodies)) =>
          CallsOf("sink") = {}
    /\ (SourceAnswered /\ ~is_success(app_get.status)) => CallsOf("sink") = {}

\* a copy went through: source read, then one write, and the write answered
C1_Witness ==
    /\ pc = "done"
    /\ Len(calls) = 2
    /\ calls[1].kind = "source"
    /\ calls[2].kind = "sink"
    /\ put_status \in PutStatuses
    /\ response.body = "put-body"

\* ------------------------------------------------------------------------
\* C2
\* ------------------------------------------------------------------------

\* the client's request declares a body: Content-Length present and not 0
DeclaresBody ==
    /\ "Content-Length" \in DOMAIN client_req.headers
    /\ client_req.headers["Content-Length"] # int_token(0)

\* a PUT on an object path with a non-empty X-Copy-From
IsCopyPUT ==
    /\ OnObjectPath
    /\ client_req.method = "PUT"
    /\ Truthy(client_req.headers, "X-Copy-From")

\* a COPY on an object path with a non-empty Destination
IsCopyCOPY ==
    /\ OnObjectPath
    /\ client_req.method = "COPY"
    /\ Truthy(client_req.headers, "Destination")

\* the value v of a path header after URL-decoding, with the leading slash
\* it may lack
Normalized(v) ==
    LET d == unquote(v) IN IF d # <<>> /\ d[1] = "/" THEN d ELSE Slash \o d

\* the positions at which Normalized(v) splits into a non-empty container
\* (no slash in it) and a non-empty object
SplitPoints(v) ==
    LET p == Normalized(v)
    IN {i \in 3..(Len(p) - 1) : p[i] = "/" /\ \A j \in 2..(i - 1) : p[j] # "/"}

WellFormed(v) == SplitPoints(v) # {}

ContainerOf(v) ==
    LET i == CHOOSE i \in SplitPoints(v) : TRUE IN SubSeq(Normalized(v), 2, i - 1)

ObjectOf(v) ==
    LET p == Normalized(v)
        i == CHOOSE i \in SplitPoints(v) : TRUE
    IN SubSeq(p, i + 1, Len(p))

HasSlash(v) == \E i \in 1..Len(v) : v[i] = "/"

\* the account header the handler of the client's method validates is
\* acceptable: an X-Copy-From-Account (PUT) that is absent, empty or free of
\* slashes, a Destination-Account (COPY) that is absent or non-empty and
\* free of slashes
AccountHeaderValid ==
    LET h == client_req.headers IN
    /\ (client_req.method = "PUT" /\ "X-Copy-From-Account" \in DOMAIN h) =>
          ~HasSlash(h["X-Copy-From-Account"])
    /\ (client_req.method = "COPY" /\ "Destination-Account" \in DOMAIN h) =>
          h["Destination-Account"] # <<>> /\ ~HasSlash(h["Destination-Account"])

\* the copy header of the client's request is well formed
PathHeaderWellFormed ==
    \/ IsCopyPUT /\ WellFormed(client_req.headers["X-Copy-From"])
    \/ IsCopyCOPY /\ WellFormed(client_req.headers["Destination"])

\* C2 as stated: every copy request (PUT with X-Copy-From, COPY with
\* Destination), here even only those whose copy and account headers are
\* well formed, that declares a non-zero body length ends in 400, with no
\* source and no sink sub-request issued.
C2_Original ==
    (PathHeaderWellFormed /\ AccountHeaderValid /\ DeclaresBody) =>
        /\ calls = <<>>
        /\ pc = "done" => response.status = HTTP_BAD_REQUEST

\* C2 as amended: a PUT with a non-empty X-Copy-From that declares a
\* non-zero body length ends in 400 "Copy requests require a zero byte
\* body" with no sub-request issued; a COPY is never answered so: its
\* Content-Length is overwritten with 0 before the length is looked at.
C2_BodyRejectedOnPUT ==
    /\ (IsCopyPUT /\ DeclaresBody) =>
          /\ calls = <<>>
          /\ pc = "done" =>
                response = Error(HTTP_BAD_REQUEST, MsgZeroByte) /\ ~raised
    /\ (OnObjectPath /\ client_req.method = "COPY") =>
          /\ response.body # MsgZeroByte
          /\ pc \in {"handle_PUT", "get_source_resp", "send_put_req"} =>
                req.headers["Content-Length"] = int_token(0)

\* a PUT copy with a declared body has been answered 400
C2_Witness ==
    /\ pc = "done"
    /\ IsCopyPUT
    /\ DeclaresBody
    /\ response.status = HTTP_BAD_REQUEST

\* ------------------------------------------------------------------------
\* C3
\* ------------------------------------------------------------------------

\* the source answer declares no length or one above MAX_FILE_SIZE
SourceTooLarge ==
    app_get.content_length = NoLength \/ app_get.content_length > MAX_FILE_SIZE

\* C3: once a source sub-request is answered with a null length or a length
\* above MAX_FILE_SIZE, the request has ended in 413 Request Entity Too
\* Large and no sink sub-request has been issued.
C3_TooLargeIs413 ==
    (SourceAnswered /\ SourceTooLarge) =>
        /\ pc = "done"
        /\ response.status = HTTP_REQUEST_ENTITY_TOO_LARGE
        /\ ~raised
        /\ CallsOf("sink") = {}

\* a source answer with a 2xx status and no declared length got 413
C3_Witness ==
    /\ pc = "done"
    /\ SourceAnswered
    /\ app_get.content_length = NoLength
    /\ app_get.status = 200
    /\ response.status = HTTP_REQUEST_ENTITY_TOO_LARGE

\* ------------------------------------------------------------------------
\* C4
\* ------------------------------------------------------------------------

\* a PUT whose non-empty X-Copy-From is malformed
MalformedCopyFrom == IsCopyPUT /\ ~WellFormed(client_req.headers["X-Copy-From"])

\* a COPY whose non-empty Destination is malformed
MalformedDestination ==
    IsCopyCOPY /\ ~WellFormed(client_req.headers["Destination"])

C5_DestinationRequired ==
    (pc = "done" /\ OnObjectPath /\ client_req.method = "COPY"
        /\ ~Truthy(client_req.headers, "Destination")) =>
        /\ response = Error(HTTP_PRECONDITION_FAILED, MsgDestinationRequired)
        /\ ~raised
        /\ req.method = "COPY"
        /\ req.path_info = client_req.path_info
        /\ calls = <<>>

\* a COPY with an empty Destination was refused
C5_Witness ==
    /\ pc = "done"
    /\ OnObjectPath
    /\ client_req.method = "COPY"
    /\ "Destination" \in DOMAIN client_req.headers
    /\ client_req.headers["Destination"] = <<>>
    /\ response.status = HTTP_PRECONDITION_FAILED

\* ------------------------------------------------------------------------
\* C6 and C7
\* ------------------------------------------------------------------------

\* the headers of the sink sub-request, once it is issued
SinkIssued == CallsOf("sink") # {}
SinkHeaders == calls[2].headers

\* the client asked for fresh metadata
FreshRequested ==
    /\ "X-Fresh-Metadata" \in DOMAIN client_req.headers
    /\ client_req.headers["X-Fresh-Metadata"] = <<"true">>

\* the header names the normal copy carries over
CarriedNames ==
    SysMetaNames \cup UserMetaNames \cup TransientSysMetaNames \cup {"X-Delete-At"}

\* C6: in normal copy mode (no X-Fresh-Metadata, not post-as-copy) the
\* system, user and transient-system metadata headers and X-Delete-At of the
\* sink sub-request are those of the source response overlaid by those of
\* the client's request: the request's value where the request has the
\* header, else the source's value, and no such header that neither has.
C6_NormalCopyOverlay ==
    (SinkIssued /\ ~FreshRequested /\ ~IsPostAsCopy) =>
        \A k \in CarriedNames :
            IF k \in DOMAIN client_req.headers
            THEN k \in DOMAIN SinkHeaders /\ SinkHeaders[k] = client_req.headers[k]
            ELSE IF k \in DOMAIN app_get.headers
            THEN k \in DOMAIN SinkHeaders /\ SinkHeaders[k] = app_get.headers[k]
            ELSE k \notin DOMAIN SinkHeaders

\* a normal copy where request and source both carry user metadata and only
\* the source carries transient system metadata
C6_Witness ==
    /\ SinkIssued /\ ~FreshRequested /\ ~IsPostAsCopy
    /\ "X-Object-Meta-K" \in DOMAIN client_req.headers
    /\ "X-Object-Meta-K" \in DOMAIN app_get.headers
    /\ client_req.headers["X-Object-Meta-K"] # app_get.headers["X-Object-Meta-K"]
    /\ "X-Object-Transient-Sysmeta-K" \notin DOMAIN client_req.headers
    /\ "X-Object-Transient-Sysmeta-K" \in DOMAIN app_get.headers

\* C7: with X-Fresh-Metadata true, and in post-as-copy, the system metadata
\* headers of the sink sub-request are exactly those of the source response,
\* whatever system metadata the client's request carried; its user and
\* transient-system metadata headers are exactly those of the client's
\* request.
C7_FreshMetadata ==
    (SinkIssued /\ (FreshRequested \/ IsPostAsCopy)) =>
        /\ Restrict(SinkHeaders, SysMetaNames) = Restrict(app_get.headers, SysMetaNames)
        /\ Restrict(SinkHeaders, UserMetaNames \cup TransientSysMetaNames)
              = Restrict(client_req.headers, UserMetaNames \cup TransientSysMetaNames)

\* a fresh-metadata copy where the request carries system metadata the
\* source lacks, and the source carries user metadata the request lacks
C7_Witness ==
    /\ SinkIssued /\ FreshRequested /\ ~IsPostAsCopy
    /\ "X-Object-Sysmeta-K" \in DOMAIN client_req.headers
    /\ "X-Object-Sysmeta-K" \notin DOMAIN app_get.headers
    /\ "X-Object-Meta-K" \notin DOMAIN client_req.headers
    /\ "X-Object-Meta-K" \in DOMAIN app_get.headers

\* ------------------------------------------------------------------------
\* C8
\* ------------------------------------------------------------------------

\* a COPY on an object path to a well-formed Destination in the account
\* Destination-Account names
CrossAccountCOPY ==
    /\ IsCopyCOPY
    /\ WellFormed(client_req.headers["Destination"])
    /\ "Destination-Account" \in DOMAIN client_req.headers
    /\ client_req.headers["Destination-Account"] = AcctB

\* version and account of the client's URL
UrlVersion == split(client_req.path_info, 2)[2]
UrlAccount == split(client_req.path_info, 3)[3]

\* C8: for a COPY of /ver/A/c/o with Destination-Account: B and a
\* well-formed Destination (/c2/o2), the source sub-request reads the
\* object of the URL, /ver/A/c/o, the sink sub-request writes
\* /ver/B/<container>/<object> as the Destination names them, and the
\* response to a successful write carries X-Copied-From-Account: A.
C8_CrossAccountCOPY ==
    CrossAccountCOPY =>
        /\ Len(calls) >= 1 =>
              calls[1].kind = "source" /\ calls[1].path = client_req.path_info
        /\ Len(calls) >= 2 =>
              /\ calls[2].kind = "sink"
              /\ calls[2].method = "PUT"
              /\ calls[2].path =
                    path4(UrlVersion, AcctB,
                          ContainerOf(client_req.headers["Destination"]),
                          ObjectOf(client_req.headers["Destination"]))
        /\ (pc = "done" /\ SinkIssued /\ is_success(response.status)) =>
              /\ "X-Copied-From-Account" \in DOMAIN response.headers
              /\ response.headers["X-Copied-From-Account"] = AcctA

\* the cross-account COPY of the claim, written and answered 201
C8_Witness ==
    /\ pc = "done"
    /\ CrossAccountCOPY
    /\ client_req.headers["Destination"] = GoodPathHeader
    /\ client_req.path_info = ObjectPath
    /\ SinkIssued
    /\ calls[2].path = path4(<<"v1">>, AcctB, <<"c2">>, <<"o2">>)
    /\ response.status = HTTP_CREATED

\* ------------------------------------------------------------------------
\* C9
\* ------------------------------------------------------------------------

\* C9: the status reported for an answered sink PUT is 202 when the
\* operation is post-as-copy and the PUT answered 201, and the PUT's own
\* status in every other case (201 included, for PUT with X-Copy-From and
\* for COPY).
C9_ReportedStatus ==
    (pc = "done" /\ put_status # 0) =>
        response.status =
            IF IsPostAsCopy /\ put_status = HTTP_CREATED THEN HTTP_ACCEPTED
            ELSE put_status

\* a post-as-copy whose PUT answered 201 was reported as 202
C9_Witness ==
    /\ pc = "done"
    /\ IsPostAsCopy
    /\ put_status = HTTP_CREATED
    /\ response.status = HTTP_ACCEPTED

\* ------------------------------------------------------------------------
\* C10
\* ------------------------------------------------------------------------

\* the client named another account: a source account with
\* X-Copy-From-Account, or a destination account with Destination-Account
\* on a COPY
CrossAccount ==
    \/ Truthy(client_req.headers, "X-Copy-From-Account")
    \/ client_req.method = "COPY"
       /\ "Destination-Account" \in DOMAIN client_req.headers

\* the copy was written and the write answered with a 2xx status
CopySucceeded == pc = "done" /\ SinkIssued /\ is_success(put_status)

\* C10 as stated: the response to a successful copy carries
\* X-Copied-From-Account only when the copy is cross-account; within one
\* account it carries X-Copied-From and no X-Copied-From-Account.
C10_Original ==
    (CopySucceeded /\ ~IsPostAsCopy) =>
        /\ "X-Copied-From" \in DOMAIN response.headers
        /\ "X-Copied-From-Account" \in DOMAIN response.headers => CrossAccount

\* C10 as amended: the response to a successful copy that is not
\* post-as-copy always carries X-Copied-From-Account, cross-account or not:
\* it names the account the source was read from, which is the account of
\* the URL when the client named no other account; X-Copied-From is there
\* too.  The response to a post-as-copy carries neither.
C10_CopiedFromAccountAlways ==
    CopySucceeded =>
        IF IsPostAsCopy
        THEN /\ "X-Copied-From" \notin DOMAIN response.headers
             /\ "X-Copied-From-Account" \notin DOMAIN response.headers
        ELSE /\ "X-Copied-From" \in DOMAIN response.headers
             /\ "X-Copied-From-Account" \in DOMAIN response.headers
             /\ response.headers["X-Copied-From-Account"]
                   = quote(split(calls[1].path, 3)[3])
             /\ ~CrossAccount =>
                   response.headers["X-Copied-From-Account"] = quote(UrlAccount)

\* a successful copy within one account whose response names that account
C10_Witness ==
    /\ CopySucceeded
    /\ ~IsPostAsCopy
    /\ ~CrossAccount
    /\ response.headers["X-Copied-From-Account"] = AcctA

\* ------------------------------------------------------------------------
\* C11
\* ------------------------------------------------------------------------

\* the request handle_PUT works on carries multipart-manifest=get (the
\* client's query, or the parameter post-as-copy forces)
ManifestGet ==
    /\ "multipart-manifest" \in DOMAIN req.params
    /\ req.params["multipart-manifest"] = "get"

SourceIsSLO == "X-Static-Large-Object" \in DOMAIN app_get.headers
SourceIsDLO == "X-Object-Manifest" \in DOMAIN app_get.headers
SinkParams == calls[2].params

\* what the sink request has when neither rewrite happened: the parameters
\* of the request and the request's own X-Object-Manifest, if any
NoManifestRewrite ==
    /\ SinkParams = req.params
    /\ ("X-Object-Manifest" \in DOMAIN SinkHeaders)
          = ("X-Object-Manifest" \in DOMAIN req.headers)

\* C11 as stated: with multipart-manifest=get, a source that has
\* X-Static-Large-Object makes the sink's multipart-manifest parameter put,
\* and a source that has X-Object-Manifest makes the sink carry that header
\* and no multipart-manifest parameter; without multipart-manifest=get
\* neither rewrite happens.
C11_Original ==
    SinkIssued =>
        /\ (ManifestGet /\ SourceIsSLO) =>
              /\ "multipart-manifest" \in DOMAIN SinkParams
              /\ SinkParams["multipart-manifest"] = "put"
        /\ (ManifestGet /\ SourceIsDLO) =>
              /\ "multipart-manifest" \notin DOMAIN SinkParams
              /\ "X-Object-Manifest" \in DOMAIN SinkHeaders
              /\ SinkHeaders["X-Object-Manifest"] = app_get.headers["X-Object-Manifest"]
        /\ ~ManifestGet => NoManifestRewrite

\* C11 as amended: with multipart-manifest=get, a source that has
\* X-Object-Manifest (with or without X-Static-Large-Object) makes the sink
\* carry the source's X-Object-Manifest and no multipart-manifest parameter;
\* a source that has X-Static-Large-Object and no X-Object-Manifest makes
\* the sink's multipart-manifest parameter put; a source with neither leaves
\* the parameter get; without multipart-manifest=get neither rewrite
\* happens.
C11_ManifestRewrite ==
    SinkIssued =>
        /\ (ManifestGet /\ SourceIsDLO) =>
              /\ SinkParams = Pop(req.params, "multipart-manifest")
              /\ "X-Object-Manifest" \in DOMAIN SinkHeaders
              /\ SinkHeaders["X-Object-Manifest"] = app_get.headers["X-Object-Manifest"]
        /\ (ManifestGet /\ SourceIsSLO /\ ~SourceIsDLO) =>
              SinkParams = Put(req.params, "multipart-manifest", "put")
        /\ (ManifestGet /\ ~SourceIsSLO /\ ~SourceIsDLO) => NoManifestRewrite
        /\ ~ManifestGet => NoManifestRewrite

\* a manifest copy of a static large object reached the write
C11_Witness ==
    /\ SinkIssued
    /\ client_req.method = "COPY"
    /\ ManifestGet
    /\ SourceIsSLO
    /\ ~SourceIsDLO
    /\ SinkParams["multipart-manifest"] = "put"

\* ------------------------------------------------------------------------
\* C12
\* ------------------------------------------------------------------------

\* an OPTIONS request on an object path has been answered
OptionsAnswered ==
    pc = "done" /\ OnObjectPath /\ client_req.method = "OPTIONS"

AdaptedNames == {"Allow", "Access-Control-Allow-Methods"}

\* the number of verbs of a header value that contain COPY
CountCOPY(value) == Cardinality({i \in 1..Len(value) : has_COPY(<<value[i]>>)})

\* C12: for an answered OPTIONS request on an object path whose downstream
\* response is a success, an Allow or Access-Control-Allow-Methods header
\* without COPY is that header with COPY appended, containing COPY exactly
\* once, and one with COPY is unchanged; adapting the adapted headers again
\* changes nothing; every other header, and every header of a response that
\* is not a success, is as the application sent it.
C12_OptionsAdaptation ==
    OptionsAnswered =>
        LET h == app_resp.headers
            out == response.headers
        IN /\ response.status = app_resp.status
           /\ DOMAIN out = DOMAIN h
           /\ is_success(app_resp.status) =>
                 /\ \A k \in AdaptedNames \cap DOMAIN h :
                        IF has_COPY(h[k])
                        THEN out[k] = h[k]
                        ELSE /\ out[k] = h[k] \o <<"COPY">>
                             /\ CountCOPY(out[k]) = 1
                 /\ \A k \in (DOMAIN h) \ AdaptedNames : out[k] = h[k]
                 /\ options_headers(app_resp.status, out) = out
           /\ ~is_success(app_resp.status) => out = h

\* a successful OPTIONS answer whose Allow lacked COPY and whose
\* Access-Control-Allow-Methods had it
C12_Witness ==
    /\ OptionsAnswered
    /\ app_resp.status = 200
    /\ "Allow" \in DOMAIN app_resp.headers
    /\ app_resp.headers["Allow"] = <<"GET", "PUT">>
    /\ "Access-Control-Allow-Methods" \in DOMAIN app_resp.headers
    /\ app_resp.headers["Access-Control-Allow-Methods"] = <<"COPY", "GET">>
    /\ response.headers["Allow"] = <<"GET", "PUT", "COPY">>

\* ------------------------------------------------------------------------
\* C13
\* ------------------------------------------------------------------------

\* C13: every source sub-request carries X-Newest: true, whatever X-Newest
\* the client's request carried.
C13_SourceReadsNewest ==
    \A i \in CallsOf("source") :
        /\ "X-Newest" \in DOMAIN calls[i].headers
        /\ calls[i].headers["X-Newest"] = <<"true">>

\* a source sub-request was issued for a request that said X-Newest: false
C13_Witness ==
    /\ CallsOf("source") # {}
    /\ "X-Newest" \in DOMAIN client_req.headers
    /\ client_req.headers["X-Newest"] = <<"false">>
    /\ calls[1].headers["X-Newest"] = <<"true">>

\* ------------------------------------------------------------------------
\* C14
\* ------------------------------------------------------------------------

\* the source sub-requests sent with read authorization bypassed
BypassedReads == {i \in CallsOf("source") : calls[i].authorize_override}

\* C14 as stated: a source sub-request sent with read authorization
\* bypassed reads the object the write is aimed at (the path of the
\* rewritten request, which the sink sub-request takes over), and every
\* post-as-copy POST is read that way, whatever headers it carried.
C14_Original ==
    /\ \A i \in BypassedReads :
          /\ calls[i].path = req.path_info
          /\ SinkIssued => calls[i].path = calls[2].path
    /\ (IsPostAsCopy /\ CallsOf("source") # {}) => BypassedReads = CallsOf("source")

\* ------------------------------------------------------------------------
\* Two requests in one middleware instance
\* ------------------------------------------------------------------------

\* self.account_name, self.container_name and self.object_name belong to the
\* instance, not to the request: __call__ writes them and handle_COPY and
\* handle_object_post_as_copy read them.  Each request below takes __call__
\* and its handler as two steps; the steps of different requests interleave.

RequestIds == 1..NumRequests

\* handle_COPY (lines 355-382) on request r with the instance fields as
\* they are: whether it reaches handle_PUT, the rewritten request and the
\* fields it leaves
copy_outcome(r, account, container, object) ==
    LET has_dest_account == "Destination-Account" \in DOMAIN r.headers
        dest_account == IF has_dest_account THEN r.headers["Destination-Account"]
                        ELSE account
        h1 == IF has_dest_account THEN set_copy_from_account(r.headers, account)
              ELSE r.headers
        dest == _check_destination_header(r.headers)
        source == path2(container, object)
        ver == split_path(r.path_info, 1, 2).segs[1]
        h3 == Put(Put(h1, "Content-Length", int_token(0)), "X-Copy-From",
                  quote(source))
        unchanged == [ok |-> FALSE, req |-> r, account_name |-> account,
                      container_name |-> container, object_name |-> object]
    IN IF ~destination_given(r.headers) THEN unchanged
       ELSE IF has_dest_account /\ ~account_format_ok(dest_account) THEN unchanged
       ELSE IF ~dest.ok
       THEN [unchanged EXCEPT !.req = [r EXCEPT !.headers = h1],
                              !.account_name = dest_account]
       ELSE [ok |-> TRUE,
             req |-> [r EXCEPT !.method = "PUT",
                               !.path_info = path4(ver, dest_account,
                                                   dest.segs[1], dest.segs[2]),
                               !.headers = Pop(h3, "Destination")],
             account_name |-> dest_account,
             container_name |-> dest.segs[1],
             object_name |-> dest.segs[2]]

\* handle_object_post_as_copy (lines 340-353): the rewritten request
post_outcome(r, account, container, object) ==
    LET h1 == Pop(Put(r.headers, "Content-Length", int_token(0)), "Range")
        h2 == Put(h1, "X-Copy-From", quote(path2(container, object)))
    IN [r EXCEPT !.method = "PUT",
                 !.path_info = path4(<<"v1">>, account, container, object),
                 !.headers = h2,
                 !.environ.post_as_copy = TRUE,
                 !.params = Put(r.params, "multipart-manifest", "get")]

\* handle_PUT (lines 433-448): whether it reaches the source sub-request,
\* and the source path it resolves; it reads no field of the instance
put_outcome(r) ==
    LET parts == split_path(r.path_info, 2, 3)
        given == Truthy(r.headers, "X-Copy-From-Account")
        src_account_name == IF given THEN r.headers["X-Copy-From-Account"]
                            ELSE parts.segs[2]
        src == _check_copy_from_header(r.headers)
    IN IF has_body(r.headers) \/ (given /\ ~account_format_ok(src_account_name))
          \/ ~src.ok
       THEN [ok |-> FALSE, source_path |-> <<>>]
       ELSE [ok |-> TRUE,
             source_path |-> path4(parts.segs[1], src_account_name,
                                   src.segs[1], src.segs[2])]

AcctAB == {AcctA, AcctB}

ConcurrentRequests ==
    {Request("COPY", path4(<<"v1">>, a, <<"c">>, <<"o">>),
             Dict({<<"Destination", GoodPathHeader>>} \cup dsta), EmptyDict) :
        a \in AcctAB, dsta \in Optional("Destination-Account", {AcctB})}
    \cup
    {Request(m, path4(<<"v1">>, a, <<"c3">>, <<"o3">>), Dict(CopyHeaders(m)),
             EmptyDict) :
        m \in {"POST", "PUT", "GET"}, a \in AcctAB}

Idle == Request("GET", <<>>, EmptyDict, EmptyDict)

InitConcurrent ==
    /\ handling \in [RequestIds ->
                        {[pc |-> "__call__", client_req |-> r, req |-> r,
                          source_path |-> <<>>] : r \in ConcurrentRequests}]
    /\ object_post_as_copy \in BOOLEAN
    /\ account_name = <<>>
    /\ container_name = <<>>
    /\ object_name = <<>>
    /\ pc = "done"
    /\ client_req = Idle
    /\ req = Idle
    /\ app_get = NoSource
    /\ source_path = <<>>
    /\ source_resp = NoSource
    /\ resp_headers = EmptyDict
    /\ calls = <<>>
    /\ closed = {}
    /\ put_status = 0
    /\ response = NoResponse
    /\ raised = FALSE
    /\ app_resp = NoResponse

\* the state of the one-request machine, which stands still here
one_request == <<pc, client_req, req, app_get, source_path, source_resp,
                 resp_headers, calls, closed, put_status, response, raised,
                 app_resp, object_post_as_copy>>

\* __call__ for request i
CallOf(i) ==
    /\ handling[i].pc = "__call__"
    /\ LET r == handling[i].req
           parts == split_path(r.path_info, 4, 4)
       IN IF ~parts.ok
          THEN /\ handling' = [handling EXCEPT ![i].pc = "app"]
               /\ UNCHANGED <<account_name, container_name, object_name>>
          ELSE /\ account_name' = parts.segs[2]
               /\ container_name' = parts.segs[3]
               /\ object_name' = parts.segs[4]
               /\ handling' = [handling EXCEPT
                      ![i].req = [r EXCEPT !.environ.orig_req_method = r.method],
                      ![i].pc = dispatch(r)]
    /\ UNCHANGED one_request

\* handle_COPY for request i, up to its call of handle_PUT
COPYOf(i) ==
    /\ handling[i].pc = "handle_COPY"
    /\ LET out == copy_outcome(handling[i].req, account_name, container_name,
                               object_name)
       IN /\ account_name' = out.account_name
          /\ container_name' = out.container_name
          /\ object_name' = out.object_name
          /\ handling' = [handling EXCEPT
                 ![i].req = out.req,
                 ![i].pc = IF out.ok THEN "handle_PUT" ELSE "done"]
    /\ UNCHANGED one_request

\* handle_object_post_as_copy for request i, up to its call of handle_PUT
PostAsCopyOf(i) ==
    /\ handling[i].pc = "handle_object_post_as_copy"
    /\ handling' = [handling EXCEPT
           ![i].req = post_outcome(handling[i].req, account_name,
                                   container_name, object_name),
           ![i].pc = "handle_PUT"]
    /\ UNCHANGED <<account_name, container_name, object_name>>
    /\ UNCHANGED one_request

\* handle_PUT for request i: it resolves the source path; what follows
\* neither reads nor writes a field of the instance
PUTOf(i) ==
    /\ handling[i].pc = "handle_PUT"
    /\ handling' = [handling EXCEPT
           ![i].source_path = put_outcome(handling[i].req).source_path,
           ![i].pc = "done"]
    /\ UNCHANGED <<account_name, container_name, object_name>>
    /\ UNCHANGED one_request

\* request i is handed to the application as it is
ForwardOf(i) ==
    /\ handling[i].pc \in {"app", "handle_OPTIONS"}
    /\ handling' = [handling EXCEPT ![i].pc = "done"]
    /\ UNCHANGED <<account_name, container_name, object_name>>
    /\ UNCHANGED one_request

ConcurrentCall == \E i \in RequestIds : CallOf(i)
ConcurrentCOPY == \E i \in RequestIds : COPYOf(i)
ConcurrentPostAsCopy == \E i \in RequestIds : PostAsCopyOf(i)
ConcurrentPUT == \E i \in RequestIds : PUTOf(i)
ConcurrentForward == \E i \in RequestIds : ForwardOf(i)

NextConcurrent ==
    \/ ConcurrentCall
    \/ ConcurrentCOPY
    \/ ConcurrentPostAsCopy
    \/ ConcurrentPUT
    \/ ConcurrentForward

SpecConcurrent == InitConcurrent /\ [][NextConcurrent]_vars

\* ------------------------------------------------------------------------
\* C15
\* ------------------------------------------------------------------------

\* the source path and the rewritten request a request r resolves to when
\* its handler finds the fields __call__ set for r itself
Alone(r) ==
    LET self == split_path(r.path_info, 4, 4).segs
        handler == dispatch(r)
        rewritten ==
            IF handler = "handle_COPY"
            THEN copy_outcome(r, self[2], self[3], self[4]).req
            ELSE IF handler = "handle_object_post_as_copy"
            THEN post_outcome(r, self[2], self[3], self[4])
            ELSE r
        copies == handler \in {"handle_COPY", "handle_object_post_as_copy",
                               "handle_PUT"}
    IN [source_path |-> IF copies THEN put_outcome(rewritten).source_path
                        ELSE <<>>,
        path_info |-> rewritten.path_info]

\* C15 as stated: under every interleaving of two requests handled by one
\* instance, the source path and the destination path a finished request
\* resolved are those its own URL and headers determine.
C15_Original ==
    \A i \in RequestIds :
        handling[i].pc = "done" =>
            /\ handling[i].source_path = Alone(handling[i].client_req).source_path
            /\ handling[i].req.path_info = Alone(handling[i].client_req).path_info

\* ------------------------------------------------------------------------
\* C16
\* ------------------------------------------------------------------------

\* C16 as stated: once a request whose source sub-request was answered has
\* ended (source status of 300 or more, source length null or above
\* MAX_FILE_SIZE, or the write completed), the body stream of the source
\* response has been closed.
C16_Original ==
    (pc = "done" /\ SourceAnswered) => app_get.app_iter \in closed

\* ------------------------------------------------------------------------
\* C17
\* ------------------------------------------------------------------------

\* the response the caller gets is the source response itself
SourceSurfaced ==
    /\ response = [status |-> app_get.status, headers |-> app_get.headers,
                   body |-> app_get.body]
    /\ ~raised

\* C17 as stated: once a source sub-request is answered with a status that
\* is not 2xx, whatever the length it declares, the request has ended with
\* the source response as its result and no sink sub-request was issued.
C17_Original ==
    (SourceAnswered /\ ~is_success(app_get.status)) =>
        /\ pc = "done"
        /\ SourceSurfaced
        /\ CallsOf("sink") = {}

\* C17 as amended: once a source sub-request is answered with a status of
\* 300 or more and a declared length of at most MAX_FILE_SIZE, the request
\* has ended with the source response as its result; with a null length or
\* one above MAX_FILE_SIZE the result is the 413 instead; no sink
\* sub-request was issued in either case.
C17_SourceErrorSurfaced ==
    (SourceAnswered /\ app_get.status >= HTTP_MULTIPLE_CHOICES) =>
        /\ pc = "done"
        /\ CallsOf("sink") = {}
        /\ ~SourceTooLarge => SourceSurfaced
        /\ SourceTooLarge =>
              /\ response.status = HTTP_REQUEST_ENTITY_TOO_LARGE
              /\ response.body = HTTPRequestEntityTooLarge.body

\* a 304 source answer of acceptable length came back to the caller
C17_Witness ==
    /\ pc = "done"
    /\ SourceAnswered
    /\ app_get.status = 304
    /\ app_get.content_length = 3
    /\ response.status = 304
    /\ response.body = "source-body"

\* ------------------------------------------------------------------------
\* C18
\* ------------------------------------------------------------------------

\* C18 as stated: the source sub-request of a COPY reads the object the
\* URL of the COPY names, whatever headers the COPY carried.
C18_Original ==
    (OnObjectPath /\ client_req.method = "COPY") =>
        \A i \in CallsOf("source") : calls[i].path = client_req.path_info

\* ------------------------------------------------------------------------
\* C19
\* ------------------------------------------------------------------------

\* the branch the classification rule gives the client's request, a PUT
\* counting as a copy when `copy_put` holds of it
Branch(copy_put) ==
    IF ~OnObjectPath THEN "app"
    ELSE IF client_req.method = "PUT" /\ copy_put THEN "handle_PUT"
    ELSE IF client_req.method = "COPY" THEN "handle_COPY"
    ELSE IF client_req.method = "POST" /\ object_post_as_copy
    THEN "handle_object_post_as_copy"
    ELSE IF client_req.method = "OPTIONS" THEN "handle_OPTIONS"
    ELSE "app"

\* the one forwarded request, equal to the client's
ForwardedUnchanged ==
    calls = <<Issued("forward", client_req.method, client_req.path_info,
                     client_req.headers, client_req.params, FALSE)>>

\* a finished request whose branch is the application was forwarded once
\* and unchanged, any other never
ForwardedIff(branch) ==
    pc = "done" =>
        IF branch = "app" THEN ForwardedUnchanged ELSE CallsOf("forward") = {}

PresentCopyFrom == "X-Copy-From" \in DOMAIN client_req.headers
NonEmptyCopyFrom == Truthy(client_req.headers, "X-Copy-From")

\* C19 as stated: __call__ hands the request to the branch chosen by first
\* match, a PUT being a copy when X-Copy-From is present with any value,
\* the empty one included; what is not a copy, COPY, post-as-copy or
\* OPTIONS is forwarded once and unchanged.
C19_Original ==
    /\ [][pc = "__call__" => pc' = Branch(PresentCopyFrom)]_vars
    /\ [](ForwardedIff(Branch(PresentCopyFrom)))

\* C19 as amended: every request on an object path goes to exactly one
\* branch by first match: a PUT with a non-empty X-Copy-From to
\* copy-via-PUT, a COPY to copy-via-COPY, a POST to post-as-copy exactly
\* when object_post_as_copy is enabled, an OPTIONS to options-augmentation,
\* and every other request (a PUT whose X-Copy-From is absent or empty
\* included) is forwarded once with the client's method, path, headers and
\* parameters; so is every request whose path has no object.
C19_Classification ==
    /\ [][pc = "__call__" => pc' = Branch(NonEmptyCopyFrom)]_vars
    /\ [](ForwardedIff(Branch(NonEmptyCopyFrom)))

\* a PUT on an object path with an empty X-Copy-From was forwarded
C19_Witness ==
    /\ pc = "done"
    /\ OnObjectPath
    /\ client_req.method = "PUT"
    /\ "X-Copy-From" \in DOMAIN client_req.headers
    /\ client_req.headers["X-Copy-From"] = <<>>
    /\ ForwardedUnchanged

\* ------------------------------------------------------------------------
\* C20
\* ------------------------------------------------------------------------

\* the write sub-request has completed
WriteCompleted == pc = "done" /\ SinkIssued

\* the supplementary headers of the claim, for the source that was read
SupplementaryNames ==
    {"X-Copied-From", "X-Copied-From-Account"} \cup
    (IF "Last-Modified" \in DOMAIN source_resp.headers
     THEN {"X-Copied-From-Last-Modified"} ELSE {})

\* the metadata headers of the write, which the response repeats with them
EchoedNames ==
    {k \in DOMAIN SinkHeaders : is_sys_or_user_meta(k) \/ k = "X-Delete-At"}

\* the response has the headers of the write's answer and nothing else
PassedThrough == response.headers = app_resp.headers

\* C20 as stated: after the write, a post-as-copy whose write answered 201
\* reports 202; every other successful write, that of a post-as-copy
\* included, has the supplementary headers added; a write that did not
\* succeed is passed through with no header added.
C20_Original ==
    WriteCompleted =>
        /\ (req.environ.post_as_copy /\ put_status = HTTP_CREATED) =>
              response.status = HTTP_ACCEPTED
        /\ (is_success(put_status)
               /\ ~(req.environ.post_as_copy /\ put_status = HTTP_CREATED)) =>
              SupplementaryNames \subseteq DOMAIN response.headers
        /\ ~is_success(put_status) =>
              response.status = put_status /\ PassedThrough

\* C20 as amended: after the write, a post-as-copy reports 201 as 202 and
\* any other status as it is, and its response never gets a supplementary
\* header; a copy that is not post-as-copy reports the write's status, and
\* when that is a success its response gets X-Copied-From,
\* X-Copied-From-Account, X-Copied-From-Last-Modified when the source had
\* Last-Modified (with the source's value), and the metadata headers of the
\* write, and nothing else; a write that did not succeed is passed through
\* with no header added.
C20_AdjustedResponse ==
    WriteCompleted =>
        /\ req.environ.post_as_copy =>
              /\ response.status = IF put_status = HTTP_CREATED
                                   THEN HTTP_ACCEPTED ELSE put_status
              /\ PassedThrough
        /\ (~req.environ.post_as_copy /\ is_success(put_status)) =>
              /\ response.status = put_status
              /\ DOMAIN response.headers =
                    (DOMAIN app_resp.headers) \cup SupplementaryNames \cup EchoedNames
              /\ \A k \in (DOMAIN app_resp.headers)
                            \ (SupplementaryNames \cup EchoedNames) :
                     response.headers[k] = app_resp.headers[k]
              /\ \A k \in EchoedNames : response.headers[k] = SinkHeaders[k]
              /\ "Last-Modified" \in DOMAIN source_resp.headers =>
                    response.headers["X-Copied-From-Last-Modified"]
                        = source_resp.headers["Last-Modified"]
        /\ ~is_success(put_status) =>
              response.status = put_status /\ PassedThrough

\* a post-as-copy whose write answered 202 got no supplementary header
C20_Witness ==
    /\ WriteCompleted
    /\ req.environ.post_as_copy
    /\ put_status = HTTP_ACCEPTED
    /\ response.status = HTTP_ACCEPTED
    /\ "X-Copied-From" \notin DOMAIN response.headers

\* ------------------------------------------------------------------------
\* C21
\* ------------------------------------------------------------------------

\* the client's request came with a Content-Type that is not empty
ClientContentTypeGiven ==
    /\ "Content-Type" \in DOMAIN client_req.headers
    /\ client_req.headers["Content-Type"] # <<>>

\* C21: once the write sub-request is issued, its Content-Type is the
\* source response's when the incoming request had no Content-Type or an
\* empty one, and the incoming request's otherwise; and it carries neither
\* X-Copy-From nor X-Copy-From-Account.
C21_SinkContentType ==
    SinkIssued =>
        /\ "Content-Type" \in DOMAIN SinkHeaders
        /\ SinkHeaders["Content-Type"] =
              IF ClientContentTypeGiven
              THEN client_req.headers["Content-Type"]
              ELSE source_resp.headers["Content-Type"]
        /\ "X-Copy-From" \notin DOMAIN SinkHeaders
        /\ "X-Copy-From-Account" \notin DOMAIN SinkHeaders

\* a copy whose request had an empty Content-Type and a source account was
\* written with the source's content type
C21_Witness ==
    /\ SinkIssued
    /\ "Content-Type" \in DOMAIN client_req.headers
    /\ client_req.headers["Content-Type"] = <<>>
    /\ "X-Copy-From-Account" \in DOMAIN client_req.headers
    /\ source_resp.headers["Content-Type"] = <<"application/json">>
    /\ SinkHeaders["Content-Type"] = <<"application/json">>

====
